---- MODULE Spec2Model ----
(***************************************************************************)
(* Model of src/tree/mod.rs: the SplitCriterion enumeration and the        *)
(* function                                                                *)
(*     fn impurity(criterion: &SplitCriterion, count: &[usize], n: usize)  *)
(*         -> f64                                                          *)
(*                                                                         *)
(* usize is the 64-bit unsigned integer, f64 is IEEE-754 binary64 with     *)
(* round-to-nearest-even.  Both are wider than the integers of the model   *)
(* checker, so naturals are kept as little-endian sequences of limbs       *)
(* (base LimbBase) and an f64 is a record                                  *)
(*     [k |-> "fin", s |-> sign, m |-> mantissa, e |-> exponent]           *)
(* of value (-1)^s * m * 2^e with m = 0 or 2^52 <= m < 2^53, or            *)
(*     [k |-> "inf", s |-> sign]     or     [k |-> "nan"].                 *)
(* An intermediate value that is used more than once is an operator        *)
(* parameter, so that it is computed once.                                 *)
(*                                                                         *)
(* Spec is one call of impurity: criterion, count and n are its arguments, *)
(* ret its result.  SpecSplit is the three calls made for a split: on the  *)
(* parent region (count, n, ret) and on its parts (left, right, retLeft,   *)
(* retRight).  checks tells whether the build has overflow checks, libm    *)
(* what the platform's log2 returns, pc where the calls stand.  A call     *)
(* names a member of SplitCriterion, so none reaches the fourth arm of the *)
(* match, which names a variant the enumeration does not have.             *)
(***************************************************************************)
EXTENDS Integers, Sequences, FiniteSets, TLC

VARIABLES criterion, count, n, checks, libm, pc, ret, left, right, retLeft, retRight

vars == <<criterion, count, n, checks, libm, pc, ret, left, right, retLeft, retRight>>

(***************************************************************************)
(* Natural numbers of arbitrary size.                                      *)
(***************************************************************************)
LimbBits == 13
LimbBase == 2^LimbBits

Limb(a, i) == IF i <= Len(a) THEN a[i] ELSE 0

RECURSIVE BNorm(_)
BNorm(a) ==
    IF Len(a) = 0 THEN a
    ELSE IF a[Len(a)] = 0 THEN BNorm(SubSeq(a, 1, Len(a) - 1))
    ELSE a

RECURSIVE BFromNat(_)
BFromNat(x) == IF x = 0 THEN <<>> ELSE <<x % LimbBase>> \o BFromNat(x \div LimbBase)

BZero == <<>>
BOne == <<1>>

RECURSIVE BAddC(_, _, _, _)
BAddC(a, b, i, c) ==
    IF i > Len(a) /\ i > Len(b)
    THEN (IF c = 0 THEN <<>> ELSE <<c>>)
    ELSE <<(Limb(a, i) + Limb(b, i) + c) % LimbBase>>
         \o BAddC(a, b, i + 1, (Limb(a, i) + Limb(b, i) + c) \div LimbBase)

BAdd(a, b) == BAddC(a, b, 1, 0)

RECURSIVE BSubC(_, _, _, _)
BSubC(a, b, i, c) ==
    IF i > Len(a) THEN <<>>
    ELSE IF a[i] - Limb(b, i) - c < 0
    THEN <<a[i] - Limb(b, i) - c + LimbBase>> \o BSubC(a, b, i + 1, 1)
    ELSE <<a[i] - Limb(b, i) - c>> \o BSubC(a, b, i + 1, 0)

\* a - b for a >= b
BSub(a, b) == BNorm(BSubC(a, b, 1, 0))

RECURSIVE BCmpAt(_, _, _)
BCmpAt(a, b, i) ==
    IF i = 0 THEN 0
    ELSE IF a[i] < b[i] THEN -1
    ELSE IF a[i] > b[i] THEN 1
    ELSE BCmpAt(a, b, i - 1)

\* -1, 0, 1 as a < b, a = b, a > b (both normalised)
BCmp(a, b) ==
    IF Len(a) < Len(b) THEN -1
    ELSE IF Len(a) > Len(b) THEN 1
    ELSE BCmpAt(a, b, Len(a))

\* the limbs f[1..] as a sequence
BLimbs(f) == f \o <<>>

\* the columns cols[i..] with the carry c propagated
RECURSIVE BCarry(_, _, _)
BCarry(cols, i, c) ==
    IF i > Len(cols)
    THEN (IF c = 0 THEN <<>> ELSE <<c>>)
    ELSE <<(cols[i] + c) % LimbBase>> \o BCarry(cols, i + 1, (cols[i] + c) \div LimbBase)

\* a * s for 0 <= s <= LimbBase
BMulSmall(a, s) ==
    IF s = 0 THEN <<>> ELSE BCarry(BLimbs([i \in 1..Len(a) |-> a[i] * s]), 1, 0)

BShlLimbs(a, q) == IF Len(a) = 0 THEN a ELSE [i \in 1..q |-> 0] \o a

\* sum of a[j] * b[k + 1 - j] over the j from i on
RECURSIVE ColSum(_, _, _, _)
ColSum(a, b, k, i) ==
    IF i > Len(a) \/ i > k THEN 0
    ELSE a[i] * Limb(b, k + 1 - i) + ColSum(a, b, k, i + 1)

BMul(a, b) ==
    IF Len(a) = 0 \/ Len(b) = 0 THEN <<>>
    ELSE BNorm(BCarry(BLimbs([k \in 1..(Len(a) + Len(b) - 1) |-> ColSum(a, b, k, 1)]), 1, 0))

\* a * 2^s
BShl(a, s) == BShlLimbs(BMulSmall(a, 2^(s % LimbBits)), s \div LimbBits)

\* floor(d / 2^r) for r < LimbBits
BShrBits(d, r) ==
    BNorm(BLimbs([i \in 1..Len(d) |->
                     (d[i] \div 2^r) + (Limb(d, i + 1) % 2^r) * 2^(LimbBits - r)]))

\* floor(a / 2^s)
BShr(a, s) ==
    IF s \div LimbBits >= Len(a) THEN <<>>
    ELSE BShrBits(SubSeq(a, s \div LimbBits + 1, Len(a)), s % LimbBits)

\* a mod 2^s
BLow(a, s) == BSub(a, BShl(BShr(a, s), s))

RECURSIVE NatBitLen(_)
NatBitLen(x) == IF x = 0 THEN 0 ELSE 1 + NatBitLen(x \div 2)

BBitLen(a) == IF Len(a) = 0 THEN 0 ELSE (Len(a) - 1) * LimbBits + NatBitLen(a[Len(a)])

BIsOdd(a) == Len(a) > 0 /\ a[1] % 2 = 1

BPow2(s) == BShl(BOne, s)

(***************************************************************************)
(* usize: 64-bit unsigned integers (lines 40, 71, 72).                     *)
(***************************************************************************)
UsizeBits == 64

UsizeFits(a) == BBitLen(a) <= UsizeBits

\* the value a wraps to when overflow checks are off
UsizeWrap(a) == BLow(a, UsizeBits)

(***************************************************************************)
(* f64: IEEE-754 binary64, round to nearest, ties to even.  Every finite   *)
(* value the function can produce from 64-bit counts has a magnitude in    *)
(* [2^-140, 2^130] or is zero, so the subnormal range is never entered;    *)
(* overflow to infinity is kept.                                           *)
(***************************************************************************)
MantBits == 53
MaxExp == 1023

FZero(s) == [k |-> "fin", s |-> s, m |-> <<>>, e |-> 0]
FInf(s) == [k |-> "inf", s |-> s]
FNaN == [k |-> "nan"]

IsNaN(a) == a.k = "nan"
IsInf(a) == a.k = "inf"
IsFin(a) == a.k = "fin"
IsZero(a) == a.k = "fin" /\ Len(a.m) = 0

\* the f64 (-1)^s * q * 2^e for q <= 2^MantBits
FPack(s, q, e) ==
    IF BBitLen(q) > MantBits
    THEN (IF e + MantBits > MaxExp THEN FInf(s)
          ELSE [k |-> "fin", s |-> s, m |-> BShr(q, 1), e |-> e + 1])
    ELSE IF e + MantBits - 1 > MaxExp THEN FInf(s)
    ELSE [k |-> "fin", s |-> s, m |-> q, e |-> e]

\* q rounded up when the discarded part c compares to one half as -1, 0, 1
FTiesEven(q, c) == IF c = 1 \/ (c = 0 /\ BIsOdd(q)) THEN BAdd(q, BOne) ELSE q

\* num of L > MantBits bits keeps its MantBits leading bits
FRoundBits(s, num, e, L) ==
    FPack(s,
          FTiesEven(BShr(num, L - MantBits),
                    BCmp(BLow(num, L - MantBits), BPow2(L - MantBits - 1))),
          e + L - MantBits)

FRoundLen(s, num, e, L) ==
    IF L = 0 THEN FZero(s)
    ELSE IF L <= MantBits
    THEN [k |-> "fin", s |-> s, m |-> BShl(num, MantBits - L), e |-> e - (MantBits - L)]
    ELSE FRoundBits(s, num, e, L)

\* the f64 nearest to (-1)^s * num * 2^e, ties to even
FRound(s, num, e) == FRoundLen(s, num, e, BBitLen(num))

\* `x as f64` for x: usize
FFromUsize(x) == FRound(0, x, 0)

FNeg(a) == IF IsNaN(a) THEN a ELSE [a EXCEPT !.s = 1 - a.s]

\* f64::abs
FAbs(a) == IF IsNaN(a) THEN a ELSE [a EXCEPT !.s = 0]

SignXor(a, b) == (a.s + b.s) % 2

\* a * b
FMul(a, b) ==
    IF IsNaN(a) \/ IsNaN(b) THEN FNaN
    ELSE IF IsInf(a) \/ IsInf(b)
    THEN (IF IsZero(a) \/ IsZero(b) THEN FNaN ELSE FInf(SignXor(a, b)))
    ELSE IF IsZero(a) \/ IsZero(b) THEN FZero(SignXor(a, b))
    ELSE FRound(SignXor(a, b), BMul(a.m, b.m), a.e + b.e)

\* one more quotient bit of the division by d: <<q, r>> with r2 = 2r
\* becomes <<2q + bit, r2 - bit * d>>
DivStepR(q, r2, d) ==
    IF BCmp(r2, d) >= 0 THEN <<BAdd(BMulSmall(q, 2), BOne), BSub(r2, d)>>
    ELSE <<BMulSmall(q, 2), r2>>

DivStep(qr, d) == DivStepR(qr[1], BMulSmall(qr[2], 2), d)

\* steps >= 1 applications of DivStep, the first half of them before the rest
RECURSIVE DivBits(_, _, _)
DivRest(qr, d, steps) == IF Len(qr) = 2 THEN DivBits(qr, d, steps) ELSE qr

DivBits(qr, d, steps) ==
    IF steps = 1 THEN DivStep(qr, d)
    ELSE DivRest(DivBits(qr, d, steps \div 2), d, steps - steps \div 2)

GuardBits == MantBits + 3

\* the quotient bits qr[1] with a sticky bit for a remainder qr[2] # 0
FDivRound(s, qr, e) ==
    FRound(s, BAdd(BMulSmall(qr[1], 2), IF Len(qr[2]) = 0 THEN BZero ELSE BOne), e)

\* a / b
FDiv(a, b) ==
    IF IsNaN(a) \/ IsNaN(b) THEN FNaN
    ELSE IF IsInf(a)
    THEN (IF IsInf(b) THEN FNaN ELSE FInf(SignXor(a, b)))
    ELSE IF IsInf(b) THEN FZero(SignXor(a, b))
    ELSE IF IsZero(b)
    THEN (IF IsZero(a) THEN FNaN ELSE FInf(SignXor(a, b)))
    ELSE IF IsZero(a) THEN FZero(SignXor(a, b))
    ELSE FDivRound(SignXor(a, b),
                   DivBits(IF BCmp(a.m, b.m) >= 0 THEN <<BOne, BSub(a.m, b.m)>>
                           ELSE <<BZero, a.m>>,
                           b.m, GuardBits),
                   a.e - b.e - GuardBits - 1)

\* (-1)^sa * x + (-1)^sb * y, in units of 2^e, for x, y > 0
FAddAligned(sa, x, sb, y, e) ==
    IF sa = sb THEN FRound(sa, BAdd(x, y), e)
    ELSE IF BCmp(x, y) = 0 THEN FZero(0)
    ELSE IF BCmp(x, y) > 0 THEN FRound(sa, BSub(x, y), e)
    ELSE FRound(sb, BSub(y, x), e)

Min(x, y) == IF x < y THEN x ELSE y

\* a + b
FAdd(a, b) ==
    IF IsNaN(a) \/ IsNaN(b) THEN FNaN
    ELSE IF IsInf(a)
    THEN (IF IsInf(b) /\ a.s # b.s THEN FNaN ELSE a)
    ELSE IF IsInf(b) THEN b
    ELSE IF IsZero(a) /\ IsZero(b) THEN FZero(IF a.s = 1 /\ b.s = 1 THEN 1 ELSE 0)
    ELSE IF IsZero(a) THEN b
    ELSE IF IsZero(b) THEN a
    ELSE FAddAligned(a.s, BShl(a.m, a.e - Min(a.e, b.e)),
                     b.s, BShl(b.m, b.e - Min(a.e, b.e)), Min(a.e, b.e))

\* a - b
FSub(a, b) == FAdd(a, FNeg(b))

Sign(a) == IF IsZero(a) THEN 0 ELSE IF a.s = 1 THEN -1 ELSE 1

\* |a| against |b| as -1, 0, 1; neither is zero or NaN
FCmpAbs(a, b) ==
    IF IsInf(a) THEN (IF IsInf(b) THEN 0 ELSE 1)
    ELSE IF IsInf(b) THEN -1
    ELSE BCmp(BShl(a.m, a.e - Min(a.e, b.e)), BShl(b.m, b.e - Min(a.e, b.e)))

\* -1, 0, 1 as a < b, a = b, a > b; neither is NaN
FCmp(a, b) ==
    IF Sign(a) # Sign(b) THEN (IF Sign(a) < Sign(b) THEN -1 ELSE 1)
    ELSE IF Sign(a) = 0 THEN 0
    ELSE Sign(a) * FCmpAbs(a, b)

\* the smaller of the two instead of the larger
FMin(a, b) ==
    IF IsNaN(a) THEN b
    ELSE IF IsNaN(b) THEN a
    ELSE IF FCmp(a, b) <= 0 THEN a ELSE b

\* f64::max: a NaN argument is ignored
FMax(a, b) ==
    IF IsNaN(a) THEN b
    ELSE IF IsNaN(b) THEN a
    ELSE IF FCmp(a, b) >= 0 THEN a ELSE b

FOne == FFromUsize(BOne)

(***************************************************************************)
(* f64::log2 (line 58).  The fractional bits of the logarithm are found by *)
(* repeated squaring in fixed point.  The platform's log2 is not required  *)
(* to be correctly rounded: mode selects, for a result that is not         *)
(* representable, the nearest f64 or the neighbour below or above it.      *)
(* A platform returns one of the two neighbours (Libm), the same whenever  *)
(* the argument is the same, and not the same side for every argument: a   *)
(* platform is a table from the arguments to the values it returns.        *)
(* An argument close to 1 has a logarithm close to 0: x extra bits are     *)
(* then computed, so that the logarithm always has more bits than a        *)
(* mantissa.                                                               *)
(***************************************************************************)
LogFrac == 70
LogWork == 110

Libm == {"below", "above"}

\* one more fractional bit of the logarithm: a number in [1, 2), in units
\* of 2^-w, is squared to sq, which is halved when it reaches 2
LogStepSq(sq, acc, w) ==
    IF BBitLen(sq) > w + 1 THEN <<BShr(sq, 1), BAdd(BMulSmall(acc, 2), BOne)>>
    ELSE <<sq, BMulSmall(acc, 2)>>

LogStep(xa, w) == LogStepSq(BShr(BMul(xa[1], xa[1]), w), xa[2], w)

\* steps >= 1 applications of LogStep, the first half of them before the rest
RECURSIVE LogBits(_, _, _)
LogRest(xa, steps, w) == IF Len(xa) = 2 THEN LogBits(xa, steps, w) ELSE xa

LogBits(xa, steps, w) ==
    IF steps = 1 THEN LogStep(xa, w)
    ELSE LogRest(LogBits(xa, steps \div 2, w), steps - steps \div 2, w)

\* |log2 p| lies strictly between G and G + 1 in units of 2^-frac, and G
\* has sh > 1 bits more than a mantissa: the neighbour away from zero or
\* the one towards zero
FLog2Round(sgn, G, sh, frac, mode) ==
    FPack(sgn,
          IF CASE mode = "nearest" -> BIsOdd(BShr(G, sh - 1))
               [] mode = "below" -> sgn = 1
               [] OTHER -> sgn = 0
          THEN BAdd(BShr(G, sh), BOne) ELSE BShr(G, sh),
          sh - frac)

FLog2Bits(sgn, G, frac, mode) == FLog2Round(sgn, G, BBitLen(G) - MantBits, frac, mode)

\* floor(log2(m / 2^(MantBits - 1)) * 2^(LogFrac + x)),
\* for 2^(MantBits - 1) <= m < 2^MantBits
LogMantissa(m, x) ==
    LogBits(<<BShl(m, LogWork + x - MantBits + 1), BZero>>, LogFrac + x, LogWork + x)[2]

\* log2 of m * 2^(I - MantBits + 1), 2^(MantBits - 1) < m < 2^MantBits, with
\* x extra bits
FLog2Extra(m, I, x, mode) ==
    IF I >= 0
    THEN FLog2Bits(0, BAdd(BShl(BFromNat(I), LogFrac + x), LogMantissa(m, x)),
                   LogFrac + x, mode)
    ELSE FLog2Bits(1, BSub(BSub(BShl(BFromNat(0 - I), LogFrac + x), LogMantissa(m, x)),
                           BOne),
                   LogFrac + x, mode)

\* log2 of m * 2^(I - MantBits + 1), 2^(MantBits - 1) <= m < 2^MantBits
FLog2Fin(m, I, mode) ==
    IF BCmp(m, BPow2(MantBits - 1)) = 0
    THEN FRound(IF I < 0 THEN 1 ELSE 0, BFromNat(IF I < 0 THEN 0 - I ELSE I), 0)
    ELSE IF I = 0
    THEN FLog2Extra(m, I, MantBits - BBitLen(BSub(m, BPow2(MantBits - 1))), mode)
    ELSE IF I = -1
    THEN FLog2Extra(m, I, MantBits - BBitLen(BSub(BPow2(MantBits), m)), mode)
    ELSE FLog2Extra(m, I, 0, mode)

FLog2(p, mode) ==
    IF IsNaN(p) THEN FNaN
    ELSE IF IsZero(p) THEN FInf(1)
    ELSE IF p.s = 1 THEN FNaN
    ELSE IF IsInf(p) THEN FInf(0)
    ELSE FLog2Fin(p.m, p.e + MantBits - 1, mode)

\* log2(p) is the same on every platform: p is not a positive finite
\* number, or it is a power of two
Log2Determined(p) ==
    ~IsFin(p) \/ IsZero(p) \/ p.s = 1 \/ BCmp(p.m, BPow2(MantBits - 1)) = 0

\* the values a platform may return for log2(p)
Log2Values(p) == {FLog2(p, mode) : mode \in Libm}

\* the platform's log2 with nothing known of it
NoTable == [p \in {} |-> p]

\* p.log2() on the platform whose log2 is lg on the arguments that are not
\* determined
Log2(lg, p) == IF Log2Determined(p) THEN FLog2(p, "nearest") ELSE lg[p]

\* the platforms that agree with lg and give a value to each of args
RECURSIVE Log2Tables(_, _)
Log2Extend(lg, a, args) ==
    IF a \in DOMAIN lg THEN Log2Tables(lg, args \ {a})
    ELSE {(a :> v) @@ t : v \in Log2Values(a), t \in Log2Tables(lg, args \ {a})}

Log2Tables(lg, args) ==
    IF args = {} THEN {lg} ELSE Log2Extend(lg, CHOOSE a \in args : TRUE, args)

(***************************************************************************)
(* The function to measure the quality of a split (lines 28-38) and the    *)
(* variants the match of impurity names (lines 44, 54, 62, 70).            *)
(***************************************************************************)
SplitCriterion == {"Gini", "Entropy", "ClassificationError"}

MatchArms == {"Gini", "Entropy", "ClassificationError", "MSE"}

Panic == [k |-> "panic"]

IsPanic(r) == r.k = "panic"

\* lines 48, 57, 65: *count_i as f64 / n as f64
Fraction(count_i, num) == FDiv(FFromUsize(count_i), FFromUsize(num))

\* p is not squared
GiniStepNoSquare(imp, p) == FSub(imp, p)

\* line 49: impurity -= p * p
GiniStep(imp, p) == FSub(imp, FMul(p, p))

\* lines 46-51
RECURSIVE GiniLoop(_, _, _, _)
GiniLoop(cnt, num, i, imp) ==
    IF i > Len(cnt) THEN imp
    ELSE IF Len(cnt[i]) > 0
    THEN GiniLoop(cnt, num, i + 1, GiniStep(imp, Fraction(cnt[i], num)))
    ELSE GiniLoop(cnt, num, i + 1, imp)

\* the logarithm is left out
EntropyStepNoLog(imp, p, lg) == FSub(imp, FMul(p, p))

\* the term is added
EntropyStepAdd(imp, p, lg) == FAdd(imp, FMul(p, Log2(lg, p)))

\* line 58: impurity -= p * p.log2()
EntropyStep(imp, p, lg) == FSub(imp, FMul(p, Log2(lg, p)))

\* the test *count_i > 0 is left out
RECURSIVE EntropyLoopNoGuard(_, _, _, _, _)
EntropyLoopNoGuard(cnt, num, lg, i, imp) ==
    IF i > Len(cnt) THEN imp
    ELSE EntropyLoopNoGuard(cnt, num, lg, i + 1,
                            EntropyStep(imp, Fraction(cnt[i], num), lg))

\* lines 55-60
RECURSIVE EntropyLoop(_, _, _, _, _)
EntropyLoop(cnt, num, lg, i, imp) ==
    IF i > Len(cnt) THEN imp
    ELSE IF Len(cnt[i]) > 0
    THEN EntropyLoop(cnt, num, lg, i + 1, EntropyStep(imp, Fraction(cnt[i], num), lg))
    ELSE EntropyLoop(cnt, num, lg, i + 1, imp)

\* the arguments of log2 in a call that are not determined
Log2Args(crit, cnt, num) ==
    IF crit = "Entropy"
    THEN {p \in {Fraction(cnt[i], num) : i \in {j \in 1..Len(cnt) : Len(cnt[j]) > 0}} :
             ~Log2Determined(p)}
    ELSE {}

\* lines 63-67
RECURSIVE ErrorLoop(_, _, _, _)
ErrorLoop(cnt, num, i, imp) ==
    IF i > Len(cnt) THEN imp
    ELSE IF Len(cnt[i]) > 0
    THEN ErrorLoop(cnt, num, i + 1, FMax(imp, Fraction(cnt[i], num)))
    ELSE ErrorLoop(cnt, num, i + 1, imp)

\* the largest fraction is returned as it is
ErrorValueNoSub(maxp) == maxp

\* line 68: impurity = (1f64 - impurity).abs()
ErrorValue(maxp) == FAbs(FSub(FOne, maxp))

\* usize arithmetic: with overflow checks (debug builds) an overflow panics,
\* without them (release builds) the result wraps
UsizeResult(a, chk) ==
    IF UsizeFits(a) THEN [k |-> "usize", v |-> a]
    ELSE IF chk THEN Panic
    ELSE [k |-> "usize", v |-> UsizeWrap(a)]

\* acc + x for an x that may have panicked
UsizeAdd(acc, x, chk) ==
    IF IsPanic(x) THEN Panic ELSE UsizeResult(BAdd(acc, x.v), chk)

\* line 71: count.iter().map(|x| x * x).sum::<usize>()
RECURSIVE SquareSum(_, _, _, _)
SquareSum(cnt, chk, i, acc) ==
    IF IsPanic(acc) \/ i > Len(cnt) THEN acc
    ELSE SquareSum(cnt, chk, i + 1,
                   UsizeAdd(acc.v, UsizeResult(BMul(cnt[i], cnt[i]), chk), chk))

\* line 72: count.iter().sum::<usize>()
RECURSIVE UsizeSum(_, _, _, _)
UsizeSum(cnt, chk, i, acc) ==
    IF IsPanic(acc) \/ i > Len(cnt) THEN acc
    ELSE UsizeSum(cnt, chk, i + 1, UsizeResult(BAdd(acc.v, cnt[i]), chk))

UsizeZero == [k |-> "usize", v |-> BZero]

\* line 73: square_sum_total as f64 / n as f64 - mean * mean
MseValue(square_sum_total, mean, num) ==
    FSub(FDiv(FFromUsize(square_sum_total), FFromUsize(num)), FMul(mean, mean))

\* lines 71-73, after the two sums
MseFrom(square_sum_total, total, num) ==
    IF IsPanic(square_sum_total) \/ IsPanic(total) THEN Panic
    ELSE MseValue(square_sum_total.v, FDiv(FFromUsize(total.v), FFromUsize(num)), num)

\* lines 70-74
MseArm(cnt, num, chk) ==
    MseFrom(SquareSum(cnt, chk, 1, UsizeZero), UsizeSum(cnt, chk, 1, UsizeZero), num)

\* lines 40-78
impurity(crit, cnt, num, chk, lg) ==
    CASE crit = "Gini" -> GiniLoop(cnt, num, 1, FOne)
      [] crit = "Entropy" -> EntropyLoop(cnt, num, lg, 1, FZero(0))
      [] crit = "ClassificationError" -> ErrorValue(ErrorLoop(cnt, num, 1, FZero(0)))
      [] crit = "MSE" -> MseArm(cnt, num, chk)

(***************************************************************************)
(* The calls of impurity.  A call is made with a criterion, a slice of     *)
(* counts and n; checks says whether the build has overflow checks and     *)
(* libm what the platform's log2 has returned so far: a call that takes    *)
(* logarithms extends it by a value for each new argument.  The criterion  *)
(* is a member of SplitCriterion: the arm of line 70 is an operator of the *)
(* model (MseArm) that no call reaches.  That arm alone reads checks, so   *)
(* the calls are explored for one build; the properties of the arm are     *)
(* stated for both.                                                        *)
(***************************************************************************)
MaxClasses == 3
MaxTotal == 5

RECURSIVE BSum(_)
BSum(cnt) == IF Len(cnt) = 0 THEN BZero ELSE BAdd(cnt[1], BSum(Tail(cnt)))

\* the slices of k counts of at most total samples together
RECURSIVE Regions(_, _)
Regions(k, total) ==
    IF k = 0 THEN {<<>>}
    ELSE UNION {{Append(v, BFromNat(c)) : v \in Regions(k - 1, total - c)} : c \in 0..total}

SmallRegions == UNION {Regions(k, MaxTotal) : k \in 0..MaxClasses}

\* k classes of c samples each
RECURSIVE Uniform(_, _)
Uniform(k, c) == IF k = 0 THEN <<>> ELSE Append(Uniform(k - 1, c), c)

\* the slice of the counts cs
Region(cs) == [i \in 1..Len(cs) |-> BFromNat(cs[i])] \o <<>>

\* a region of many classes, one of two classes of 3 and 2 samples, and
\* two whose logarithms a platform rounds to different sides
WideRegions ==
    {Uniform(11, BOne), Region(<<3, 2>>), Region(<<25, 67>>), Region(<<105, 3, 201>>)}

\* slices of large counts: sums of squares above 2^53, a square above 2^64,
\* a total above 2^53, a total of 2^50 and three classes that are nearly equal
LargeValues ==
    {<<BFromNat(67108865), BFromNat(67108866), BFromNat(67108866)>>,
     Uniform(3, BFromNat(94906267)),
     <<BPow2(32)>>,
     <<BPow2(MantBits), BOne>>,
     <<BSub(BPow2(MantBits - 3), BOne), BOne>>,
     <<BFromNat(134217729), BFromNat(134217728), BFromNat(134217727)>>}

\* n is the sum of the counts, the number of counts or zero
Totals(cnt) == {BSum(cnt), BFromNat(Len(cnt)), BZero}

NoValue == [k |-> "none"]

Init ==
    /\ count \in SmallRegions \cup WideRegions \cup LargeValues
    /\ criterion \in SplitCriterion
    /\ n \in Totals(count)
    /\ checks = TRUE
    /\ libm = NoTable
    /\ pc = "call"
    /\ ret = NoValue
    /\ left = <<>>
    /\ right = <<>>
    /\ retLeft = NoValue
    /\ retRight = NoValue

\* a call runs the arm of its criterion and returns, or panics
ArmGini ==
    /\ pc = "call"
    /\ criterion = "Gini"
    /\ ret' = impurity("Gini", count, n, checks, libm)
    /\ pc' = IF IsPanic(ret') THEN "panic" ELSE "done"
    /\ UNCHANGED <<criterion, count, n, checks, libm, left, right, retLeft, retRight>>

ArmEntropy ==
    /\ pc = "call"
    /\ criterion = "Entropy"
    /\ \E lg \in Log2Tables(libm, Log2Args("Entropy", count, n)) :
           /\ libm' = lg
           /\ ret' = impurity("Entropy", count, n, checks, lg)
    /\ pc' = IF IsPanic(ret') THEN "panic" ELSE "done"
    /\ UNCHANGED <<criterion, count, n, checks, left, right, retLeft, retRight>>

ArmClassificationError ==
    /\ pc = "call"
    /\ criterion = "ClassificationError"
    /\ ret' = impurity("ClassificationError", count, n, checks, libm)
    /\ pc' = IF IsPanic(ret') THEN "panic" ELSE "done"
    /\ UNCHANGED <<criterion, count, n, checks, libm, left, right, retLeft, retRight>>

Next == ArmGini \/ ArmEntropy \/ ArmClassificationError

Spec == Init /\ [][Next]_vars

(***************************************************************************)
(* Exact comparison of results with rationals.  A finite f64 a is the      *)
(* natural FMag(a) in units of 2^-ExactBits, exactly, for every a of       *)
(* exponent -ExactBits or more.                                            *)
(***************************************************************************)
ExactBits == 4 * MantBits

FMag(a) == BShl(a.m, a.e + ExactBits)

\* x * 2^ExactBits
Exact(x) == BShl(BFromNat(x), ExactBits)

\* the rounding allowance of a k-class impurity, (k + 16) * 2^-(MantBits + 1),
\* in units of 2^-ExactBits
Tol(k) == BShl(BFromNat(k + 16), ExactBits - MantBits - 1)

\* a <= num / den + tol, for a finite a and naturals num, den > 0
AtMost(a, num, den, tol) ==
    \/ Sign(a) <= 0
    \/ BCmp(BMulSmall(FMag(a), den), BAdd(Exact(num), BMulSmall(tol, den))) <= 0

\* a >= num / den - tol, for a finite a and naturals num, den > 0
AtLeast(a, num, den, tol) ==
    IF Sign(a) >= 0
    THEN BCmp(BAdd(BMulSmall(FMag(a), den), BMulSmall(tol, den)), Exact(num)) >= 0
    ELSE BCmp(BAdd(BMulSmall(FMag(a), den), Exact(num)), BMulSmall(tol, den)) <= 0

\* the f64 nearest to num / den
Ratio(num, den) == FDiv(FFromUsize(BFromNat(num)), FFromUsize(BFromNat(den)))

\* the call has returned the impurity, under crit, of a non-empty region
\* whose n samples are the sum of its counts
Measured(crit) ==
    /\ pc = "done"
    /\ criterion = crit
    /\ Len(count) > 0
    /\ Len(n) > 0
    /\ n = BSum(count)

(***************************************************************************)
(* Gini                                                                    *)
(***************************************************************************)
\* 1 - sum_i (counts[i] / n)^2 over every class i from the i-th on, each
\* operation rounded
RECURSIVE GiniFormula(_, _, _, _)
GiniFormula(cnt, num, i, acc) ==
    IF i > Len(cnt) THEN acc
    ELSE GiniFormula(cnt, num, i + 1,
                     FSub(acc, FMul(FDiv(FFromUsize(cnt[i]), FFromUsize(num)),
                                    FDiv(FFromUsize(cnt[i]), FFromUsize(num)))))

\* 1 - 1 / k in f64
MaxGini(k) == FSub(FOne, FDiv(FOne, FFromUsize(BFromNat(k))))

GiniEquals ==
    /\ ret = GiniFormula(count, n, 1, FOne)
    /\ (count = Region(<<3, 2>>) => ret = Ratio(48, 100))

\* C1 as stated: under Gini the impurity of a non-empty region equals
\* 1 - sum_i (counts[i] / n)^2 and lies in [0, 1 - 1/k] for k classes;
\* counts [3, 2] with n = 5 give 0.48.
C1_GiniInRange ==
    Measured("Gini") =>
        /\ GiniEquals
        /\ FCmp(ret, FZero(0)) >= 0
        /\ FCmp(ret, MaxGini(Len(count))) <= 0

\* C1 amended: under Gini the impurity of a non-empty region equals
\* 1 - sum_i (counts[i] / n)^2 evaluated in f64, and lies within the
\* rounding allowance (k + 16) * 2^-54 of the interval [0, 1 - 1/k];
\* counts [3, 2] with n = 5 give 0.48.
C1_GiniWithinRounding ==
    Measured("Gini") =>
        /\ GiniEquals
        /\ IsFin(ret)
        /\ AtLeast(ret, 0, 1, Tol(Len(count)))
        /\ AtMost(ret, Len(count) - 1, Len(count), Tol(Len(count)))

\* eleven classes of one sample each: the result is above 1 - 1/11
C1_Witness ==
    /\ Measured("Gini")
    /\ count = Uniform(11, BOne)
    /\ FCmp(ret, MaxGini(11)) > 0
    /\ ~AtMost(ret, 10, 11, BZero)

(***************************************************************************)
(* ClassificationError                                                     *)
(***************************************************************************)
\* the largest of the counts cnt[i..], at least best
RECURSIVE LargestCount(_, _, _)
LargestCount(cnt, i, best) ==
    IF i > Len(cnt) THEN best
    ELSE LargestCount(cnt, i + 1, IF BCmp(cnt[i], best) > 0 THEN cnt[i] ELSE best)

RECURSIVE NonZero(_)
NonZero(cnt) ==
    IF Len(cnt) = 0 THEN <<>>
    ELSE IF Len(cnt[1]) = 0 THEN NonZero(Tail(cnt))
    ELSE <<cnt[1]>> \o NonZero(Tail(cnt))

MeasuredAny == \E crit \in SplitCriterion : Measured(crit)

\* C3 as stated: under Gini, Entropy and ClassificationError the impurity of
\* a non-empty region is 0 exactly when one class alone has a non-zero count.
C3_ZeroIffPure ==
    MeasuredAny => (IsZero(ret) <=> Len(NonZero(count)) = 1)

\* C3 amended: under Gini, Entropy and ClassificationError the impurity of
\* a non-empty region of at most 2^50 samples is 0 exactly when one class
\* alone has a non-zero count.
C3_ZeroIffPureBelow ==
    (MeasuredAny /\ BCmp(n, BPow2(MantBits - 3)) <= 0) =>
        (IsZero(ret) <=> Len(NonZero(count)) = 1)

\* 2^50 samples, all but one of one class: the error rate is not 0
C3_WitnessBelow ==
    /\ Measured("ClassificationError")
    /\ count = <<BSub(BPow2(MantBits - 3), BOne), BOne>>
    /\ ~IsZero(ret)

C3_Witness ==
    /\ Measured("Entropy")
    /\ count = Region(<<0, 3, 0>>)
    /\ IsZero(ret)

(***************************************************************************)
(* Entropy and classes without samples                                     *)
(***************************************************************************)
\* -sum_i p_i * log2(p_i) over the classes of cnt from the i-th on, each
\* operation rounded; acc is the sum so far
RECURSIVE EntropyFormula(_, _, _, _, _)
EntropyFormula(cnt, num, lg, i, acc) ==
    IF i > Len(cnt) THEN FNeg(acc)
    ELSE EntropyFormula(cnt, num, lg, i + 1,
                        FAdd(acc, FMul(FDiv(FFromUsize(cnt[i]), FFromUsize(num)),
                                       Log2(lg, FDiv(FFromUsize(cnt[i]), FFromUsize(num))))))

\* a and b are the same number (0.0 and -0.0 are)
FEq(a, b) == ~IsNaN(a) /\ ~IsNaN(b) /\ FCmp(a, b) = 0

\* C9: under Entropy a class of count 0 contributes exactly 0 and log2 is
\* never taken of 0: for every slice of counts and n > 0 the result is the
\* result of the slice without its zero counts, which is
\* -sum p_i * log2(p_i) over the classes of non-zero count; it is finite
\* when n is the number of samples.
C9_ZeroClassesIgnored ==
    (pc = "done" /\ criterion = "Entropy" /\ Len(n) > 0) =>
        /\ ret = impurity("Entropy", NonZero(count), n, checks, libm)
        /\ FEq(ret, EntropyFormula(NonZero(count), n, libm, 1, FZero(0)))
        /\ (n = BSum(count) => IsFin(ret))

C9_Witness ==
    /\ Measured("Entropy")
    /\ count = Region(<<1, 0, 3>>)
    /\ IsFin(ret)
    /\ ~IsZero(ret)
    /\ ret = impurity("Entropy", Region(<<1, 3>>), n, checks, libm)

(***************************************************************************)
(* The uniform distribution                                                *)
(***************************************************************************)
\* the limbs of a from the i-th on, modulo k
RECURSIVE BModFrom(_, _, _)
BModFrom(a, k, i) ==
    IF i > Len(a) THEN 0 ELSE (BModFrom(a, k, i + 1) * LimbBase + a[i]) % k

\* a \div k for a small k > 0
BDivSmall(a, k) ==
    BNorm([i \in 1..Len(a) |-> (BModFrom(a, k, i + 1) * LimbBase + a[i]) \div k] \o <<>>)

\* the region has k classes and its n samples can be spread evenly
Divisible == MeasuredAny /\ BModFrom(n, Len(count), 1) = 0

UniformRegion == Uniform(Len(count), BDivSmall(n, Len(count)))

\* floor(log2(k) * 2^LogFrac) for k >= 1
Log2Floor(k) ==
    BAdd(BShl(BFromNat(NatBitLen(k) - 1), LogFrac),
         LogBits(<<BShl(BFromNat(k), LogWork - NatBitLen(k) + 1), BZero>>, LogFrac, LogWork)[2])

\* the rounding allowance of a k-class entropy, (k + 8) * bits(k) * 2^-MantBits,
\* in units of 2^-ExactBits
TolEntropy(k) == BShl(BFromNat((k + 8) * NatBitLen(k)), ExactBits - MantBits)

\* a finite a >= 0 is within the allowance of log2 k
NearLog2(a, k) ==
    /\ IsFin(a)
    /\ Sign(a) >= 0
    /\ BCmp(FMag(a), BAdd(BShl(BAdd(Log2Floor(k), BOne), ExactBits - LogFrac),
                          TolEntropy(k))) <= 0
    /\ BCmp(BAdd(FMag(a), TolEntropy(k)), BShl(Log2Floor(k), ExactBits - LogFrac)) >= 0

\* no other region of the same k and n has a larger impurity
UniformIsLargest ==
    /\ ~IsNaN(ret)
    /\ \A lg \in Log2Tables(libm, Log2Args(criterion, UniformRegion, n)) :
           FCmp(ret, impurity(criterion, UniformRegion, n, checks, lg)) <= 0

\* C4 as stated: for k classes and n divisible by k, the impurity of the
\* uniform distribution is at least that of every other count vector of the
\* same k and n, and it is 1 - 1/k under Gini and ClassificationError and
\* log2(k) under Entropy.
C4_UniformIsMaximum ==
    Divisible =>
        /\ UniformIsLargest
        /\ (count = UniformRegion =>
               ret = IF criterion = "Entropy"
                     THEN FLog2(FFromUsize(BFromNat(Len(count))), "nearest")
                     ELSE MaxGini(Len(count)))

\* the allowance of the criterion of the call for k classes
Allowance(k) == IF criterion = "Entropy" THEN TolEntropy(k) ELSE Tol(k)

\* a <= b + tol for finite a and b, tol in units of 2^-ExactBits
FAtMostPlus(a, b, tol) ==
    BCmp(BAdd(IF Sign(a) > 0 THEN FMag(a) ELSE BZero, IF Sign(b) < 0 THEN FMag(b) ELSE BZero),
         BAdd(BAdd(IF Sign(a) < 0 THEN FMag(a) ELSE BZero,
                   IF Sign(b) > 0 THEN FMag(b) ELSE BZero), tol)) <= 0

\* no other region of the same k and n has an impurity that is larger by
\* more than two allowances
UniformIsLargestRounded ==
    /\ IsFin(ret)
    /\ \A lg \in Log2Tables(libm, Log2Args(criterion, UniformRegion, n)) :
           FAtMostPlus(ret, impurity(criterion, UniformRegion, n, checks, lg),
                       BMulSmall(Allowance(Len(count)), 2))

\* C4 amended: for k classes and n divisible by k, the impurity of the
\* uniform distribution is at least that of every other count vector of the
\* same k and n up to rounding (no impurity exceeds it by more than twice
\* the allowance), and it is 1 - 1/k under Gini and ClassificationError and
\* log2(k) under Entropy up to rounding: within the allowance
\* (k + 16) * 2^-54 of 1 - 1/k, within (k + 8) * bits(k) * 2^-53 of log2(k).
C4_UniformIsMaximumRounded ==
    Divisible =>
        /\ UniformIsLargestRounded
        /\ (count = UniformRegion =>
               IF criterion = "Entropy" THEN NearLog2(ret, Len(count))
               ELSE /\ IsFin(ret)
                    /\ AtMost(ret, Len(count) - 1, Len(count), Tol(Len(count)))
                    /\ AtLeast(ret, Len(count) - 1, Len(count), Tol(Len(count))))

\* three nearly equal classes under Gini: the result is above that of the
\* uniform region of the same n
C4_WitnessNearUniform ==
    /\ Measured("Gini")
    /\ count = <<BFromNat(134217729), BFromNat(134217728), BFromNat(134217727)>>
    /\ FCmp(ret, impurity("Gini", UniformRegion, n, checks, libm)) > 0

\* three classes of one sample each under Gini: the result is not 1 - 1/3
C4_Witness ==
    /\ Measured("Gini")
    /\ count = Uniform(3, BOne)
    /\ ret # MaxGini(3)
    /\ AtLeast(ret, 2, 3, Tol(3))

(***************************************************************************)
(* MSE                                                                     *)
(***************************************************************************)
\* a call on a non-empty list of values has returned
ValuesGiven == pc = "done" /\ Len(count) > 0

\* the result of the arm of line 70 for the values of the call, n being
\* their number
MseOfValues(chk) == MseArm(count, BFromNat(Len(count)), chk)

RECURSIVE BSumSquares(_)
BSumSquares(cnt) ==
    IF Len(cnt) = 0 THEN BZero ELSE BAdd(BMul(cnt[1], cnt[1]), BSumSquares(Tail(cnt)))

\* sum(x^2) / n - (sum(x) / n)^2 with the sums as naturals, in f64
MseFormula(cnt, num) ==
    FSub(FDiv(FFromUsize(BSumSquares(cnt)), FFromUsize(num)),
         FMul(FDiv(FFromUsize(BSum(cnt)), FFromUsize(num)),
              FDiv(FFromUsize(BSum(cnt)), FFromUsize(num))))

\* C5: MSE is a criterion a call can name, and under it the result for a
\* non-empty list of n values is sum(x^2) / n - (sum(x) / n)^2, and it is
\* never negative.
C5_MseNonNegative ==
    ValuesGiven =>
        /\ \A chk \in BOOLEAN :
               /\ ~IsPanic(MseOfValues(chk))
               /\ MseOfValues(chk) = MseFormula(count, BFromNat(Len(count)))
               /\ IsFin(MseOfValues(chk))
               /\ FCmp(MseOfValues(chk), FZero(0)) >= 0
        /\ "MSE" \in SplitCriterion

\* C6: MSE is a criterion a call can name, and under it the result for n
\* copies of one value is exactly 0.
C6_MseOfIdenticalIsZero ==
    (ValuesGiven /\ \A i \in 1..Len(count) : count[i] = count[1]) =>
        /\ \A chk \in BOOLEAN : ~IsPanic(MseOfValues(chk)) /\ IsZero(MseOfValues(chk))
        /\ "MSE" \in SplitCriterion

(***************************************************************************)
(* Completion and the members of the enumeration                           *)
(***************************************************************************)
\* C8: for every criterion, MSE included, every slice of counts and every n
\* the call completes and returns a value; nothing makes it panic, in the
\* arm the call has run or in the arm of line 70.
C8_AlwaysReturns ==
    /\ pc # "panic"
    /\ \A chk \in BOOLEAN : ~IsPanic(MseArm(count, n, chk))
    /\ "MSE" \in SplitCriterion

\* C10: the members of SplitCriterion are exactly Gini, Entropy,
\* ClassificationError and MSE, and the criterion the match of impurity
\* dispatches on is one of them.
C10_Members ==
    /\ SplitCriterion = {"Gini", "Entropy", "ClassificationError", "MSE"}
    /\ MatchArms \subseteq SplitCriterion
    /\ SplitCriterion \subseteq MatchArms
    /\ criterion \in SplitCriterion

(***************************************************************************)
(* A split: the impurity of a parent region and of the two parts its       *)
(* samples are divided into.                                               *)
(***************************************************************************)
MaxSplitClasses == 2
MaxSplitTotal == 4

\* the counts of two parts added class by class
RECURSIVE AddCounts(_, _)
AddCounts(l, r) ==
    IF Len(l) = 0 THEN <<>>
    ELSE <<BAdd(l[1], r[1])>> \o AddCounts(Tail(l), Tail(r))

\* the pairs of non-empty parts of k classes
SmallSplits ==
    UNION {{<<l, r>> : l \in Regions(k, MaxSplitTotal), r \in Regions(k, MaxSplitTotal)}
           : k \in 1..MaxSplitClasses}

\* two parts of three nearly equal classes, two parts of more than 2^53
\* samples together, and one sample apart from four
LargeSplits ==
    {<<Region(<<0, 1>>), Region(<<1, 3>>)>>,
     <<<<BFromNat(134217729), BFromNat(134217728), BFromNat(134217727)>>,
       <<BFromNat(134217727), BFromNat(134217728), BFromNat(134217729)>>>>,
     <<<<BPow2(MantBits), BZero>>, <<BZero, BOne>>>>}

InitSplit ==
    /\ \E lr \in SmallSplits \cup LargeSplits : left = lr[1] /\ right = lr[2]
    /\ criterion \in SplitCriterion
    /\ Len(BSum(left)) > 0
    /\ Len(BSum(right)) > 0
    /\ <<left, right>> \in LargeSplits
       \/ BCmp(BAdd(BSum(left), BSum(right)), BFromNat(MaxSplitTotal)) <= 0
    /\ count = AddCounts(left, right)
    /\ n = BSum(count)
    /\ checks = TRUE
    /\ libm = NoTable
    /\ pc = "parent"
    /\ ret = NoValue
    /\ retLeft = NoValue
    /\ retRight = NoValue

\* the impurity of the parent region
SplitParent ==
    /\ pc = "parent"
    /\ \E lg \in Log2Tables(libm, Log2Args(criterion, count, n)) :
           /\ libm' = lg
           /\ ret' = impurity(criterion, count, n, checks, lg)
    /\ pc' = IF IsPanic(ret') THEN "panic" ELSE "left"
    /\ UNCHANGED <<criterion, count, n, checks, left, right, retLeft, retRight>>

\* the impurity of the left part
SplitLeft ==
    /\ pc = "left"
    /\ \E lg \in Log2Tables(libm, Log2Args(criterion, left, BSum(left))) :
           /\ libm' = lg
           /\ retLeft' = impurity(criterion, left, BSum(left), checks, lg)
    /\ pc' = IF IsPanic(retLeft') THEN "panic" ELSE "right"
    /\ UNCHANGED <<criterion, count, n, checks, left, right, ret, retRight>>

\* the impurity of the right part
SplitRight ==
    /\ pc = "right"
    /\ \E lg \in Log2Tables(libm, Log2Args(criterion, right, BSum(right))) :
           /\ libm' = lg
           /\ retRight' = impurity(criterion, right, BSum(right), checks, lg)
    /\ pc' = IF IsPanic(retRight') THEN "panic" ELSE "split"
    /\ UNCHANGED <<criterion, count, n, checks, left, right, ret, retLeft>>

NextSplit == SplitParent \/ SplitLeft \/ SplitRight

SpecSplit == InitSplit /\ [][NextSplit]_vars

\* the weighted impurity of the parts, (n_left / n) * impurity(left) +
\* (n_right / n) * impurity(right), each operation in f64
Weighted(il, nl, ir, nr) ==
    FAdd(FMul(FDiv(FFromUsize(nl), FFromUsize(BAdd(nl, nr))), il),
         FMul(FDiv(FFromUsize(nr), FFromUsize(BAdd(nl, nr))), ir))

\* the three calls of a split have returned
SplitDone == pc = "split" /\ IsFin(ret) /\ IsFin(retLeft) /\ IsFin(retRight)

\* C7 as stated: for every criterion and every parent region split into
\* two non-empty parts whose counts add up to the parent's class by class,
\* the impurity of the parts weighted by their shares of the samples is at
\* most the impurity of the parent.
C7_ChildrenNoWorse ==
    /\ pc # "panic"
    /\ pc = "split" =>
          /\ SplitDone
          /\ FCmp(Weighted(retLeft, BSum(left), retRight, BSum(right)), ret) <= 0

\* C7 amended: for Gini, Entropy and ClassificationError and every parent
\* region split into two non-empty parts whose counts add up to the
\* parent's class by class, the three calls return and the impurity of the
\* parts weighted by their shares of the samples, evaluated in f64, exceeds
\* the impurity of the parent by at most three allowances of the criterion.
C7_ChildrenNoWorseRounded ==
    /\ pc # "panic"
    /\ pc = "split" =>
          /\ SplitDone
          /\ FAtMostPlus(Weighted(retLeft, BSum(left), retRight, BSum(right)), ret,
                         BMulSmall(Allowance(Len(count)), 3))

\* one sample of the second class apart from one of the first and three of
\* the second, under ClassificationError: the parts weigh more than the
\* parent
C7_Witness ==
    /\ SplitDone
    /\ criterion = "ClassificationError"
    /\ left = Region(<<0, 1>>)
    /\ right = Region(<<1, 3>>)
    /\ FCmp(Weighted(retLeft, BSum(left), retRight, BSum(right)), ret) > 0

====
